---- MODULE Spec2Model ----
(***************************************************************************)
(* Model of the data-quality checks of the DQ framework                    *)
(* (DataQualityLibrary, data_quality_validation_library.py) as they are    *)
(* run by the pytest modules on the module-scoped fixtures source_data     *)
(* (df1) and target_data (df2).                                            *)
(*                                                                         *)
(* A DataFrame is a record                                                 *)
(*   cols  : the column names, in order                                    *)
(*   dtype : column name -> "datetime" | "int64" | "float64" | "object"    *)
(*   rows  : sequence of rows, each a function column name -> scalar       *)
(* A scalar is a record [kind, n, s]: a number, a timestamp, a text or     *)
(* the null (None / NaN / NaT).                                            *)
(*                                                                         *)
(* The fixtures get the two DataFrames from the collaborators that are     *)
(* modelled after the checks: target_data from a query of the              *)
(* PostgresConnectorContextManager (postgres_connector.py), source_data    *)
(* from ParquetReader.process (parquet_reader.py).                         *)
(***************************************************************************)
EXTENDS Integers, Sequences, FiniteSets, TLC

VARIABLES
    df1,    \* source_data, the DataFrame object the tests of a module share
    df2,    \* target_data, likewise
    orig1,  \* source_data as the fixture loaded it
    orig2,  \* target_data as the fixture loaded it
    arg1,   \* df1 as it was when the last check was called
    arg2,   \* df2 as it was when the last check was called
    last,   \* the last check: its name, arguments and result
    rerun,  \* the result of the check before, if last repeats it
    db,     \* the PostgresConnectorContextManager and its with scope
    pq      \* the path given to ParquetReader.process and what it returned

vars == <<df1, df2, orig1, orig2, arg1, arg2, last, rerun, db, pq>>

-----------------------------------------------------------------------------
(* Bounds of the model.                                                    *)

\* The rows of a DataFrame in a source-to-target run, in the run of a whole
\* test module, in a smoke run and in a validity run.
MaxRows == 2
MaxModuleRows == 1
MaxSmokeRows == 4
MaxValidityRows == 2

\* The files under the path given to the reader, and the rows of a file.
MaxFiles == 2
MaxFileRows == 1

\* The rows of the HTML table and of the Parquet dataset of a report.
MaxReportRows == 2

\* The with scopes of a connector run, and the queries of one scope.
MaxScopes == 2
MaxQueries == 2

-----------------------------------------------------------------------------
(* Scalars.                                                                *)

Null == [kind |-> "null", n |-> 0, s |-> ""]

Num(i) == [kind |-> "num", n |-> i, s |-> ""]

\* A timestamp.  n is yyyymmdd for a calendar day, and the number of
\* nanoseconds after 1970-01-01 for a timestamp made from a number.
Date(i) == [kind |-> "date", n |-> i, s |-> ""]

Str(t) == [kind |-> "str", n |-> 0, s |-> t]

IsNull(v) == v.kind = "null"

\* The texts of the model in Python's string order ('1' < '2' < 'C' < 'H' < 'N').
Texts == <<"1", "2024-01-01", "Clinic", "Hospital", "None">>

TextRank(t) ==
    IF \E i \in 1..Len(Texts) : Texts[i] = t
    THEN CHOOSE i \in 1..Len(Texts) : Texts[i] = t
    ELSE 0

\* pd.to_numeric(errors='coerce') on one value.
ToNumeric(v) ==
    CASE v.kind = "num" -> v
      [] v.kind = "str" -> IF v.s = "1" THEN Num(1) ELSE Null
      [] OTHER -> Null

\* pd.to_datetime(errors='coerce') on one value.
ToDatetime(v) ==
    CASE v.kind = "date" -> v
      [] v.kind = "str" -> IF v.s = "2024-01-01" THEN Date(20240101) ELSE Null
      [] v.kind = "num" -> Date(v.n)
      [] OTHER -> Null

\* Series.astype(str) on one value of an object column, which holds texts
\* and None: str(None) is 'None'.
AsTypeStr(v) == IF v.kind = "str" THEN v ELSE Str("None")

-----------------------------------------------------------------------------
(* DataFrames.                                                             *)

Range(f) == {f[i] : i \in DOMAIN f}

Columns(df) == Range(df.cols)

\* df[columns] of one row: the tuple of its values in the order of columns.
Proj(row, columns) == [i \in 1..Len(columns) |-> row[columns[i]]]

Tuples(df, columns) == {Proj(df.rows[i], columns) : i \in 1..Len(df.rows)}

HasNull(t) == \E i \in DOMAIN t : IsNull(t[i])

\* pd.api.types.is_datetime64_any_dtype, pd.api.types.is_numeric_dtype
IsDatetimeDtype(dt) == dt = "datetime"

IsNumericDtype(dt) == dt \in {"int64", "float64"}

\* The conversion named conv on one value.
Convert(conv, v) ==
    CASE conv = "to_datetime" -> ToDatetime(v)
      [] conv = "to_numeric" -> ToNumeric(v)
      [] OTHER -> AsTypeStr(v)

\* df[col] = conv(df[col]): the column is replaced in place, with a new dtype.
SetColumn(df, col, conv, dt) ==
    [df EXCEPT !.dtype[col] = dt,
               !.rows = [i \in 1..Len(df.rows) |->
                            [df.rows[i] EXCEPT ![col] = Convert(conv, df.rows[i][col])]]]

\* The dtype of pd.to_numeric(df[col], errors='coerce'): a numeric column
\* keeps its dtype, a parsed one is int64 unless a value became NaN.
NumericDtype(df, col) ==
    IF IsNumericDtype(df.dtype[col]) THEN df.dtype[col]
    ELSE IF \E i \in 1..Len(df.rows) : IsNull(ToNumeric(df.rows[i][col]))
    THEN "float64" ELSE "int64"

\* The order of the values of one column: numbers and timestamps by value,
\* texts as strings.
ValLess(u, v) ==
    IF u.kind # v.kind THEN u.kind = "num" \/ (u.kind = "date" /\ v.kind = "str")
    ELSE IF u.kind = "str" THEN TextRank(u.s) < TextRank(v.s)
    ELSE u.n < v.n

TupleLess(s, t) ==
    \E i \in 1..Len(s) : /\ \A j \in 1..(i - 1) : s[j] = t[j]
                         /\ ValLess(s[i], t[i])

-----------------------------------------------------------------------------
(* check_data_full_data_set                                                *)

SourceOnly == "in source not in target"
TargetOnly == "in target not in source"

\* AlignColumn with the numeric test before the datetime test.
AlignColumn_NumericFirst(d1, d2, col) ==
    IF IsNumericDtype(d1.dtype[col]) \/ IsNumericDtype(d2.dtype[col])
    THEN [d1 |-> SetColumn(d1, col, "to_numeric", NumericDtype(d1, col)),
          d2 |-> SetColumn(d2, col, "to_numeric", NumericDtype(d2, col))]
    ELSE IF IsDatetimeDtype(d1.dtype[col]) \/ IsDatetimeDtype(d2.dtype[col])
    THEN [d1 |-> SetColumn(d1, col, "to_datetime", "datetime"),
          d2 |-> SetColumn(d2, col, "to_datetime", "datetime")]
    ELSE [d1 |-> SetColumn(d1, col, "astype_str", "object"),
          d2 |-> SetColumn(d2, col, "astype_str", "object")]

\* The type alignment of one column: datetime, else numeric, else text.
AlignColumn(d1, d2, col) ==
    IF IsDatetimeDtype(d1.dtype[col]) \/ IsDatetimeDtype(d2.dtype[col])
    THEN [d1 |-> SetColumn(d1, col, "to_datetime", "datetime"),
          d2 |-> SetColumn(d2, col, "to_datetime", "datetime")]
    ELSE IF IsNumericDtype(d1.dtype[col]) \/ IsNumericDtype(d2.dtype[col])
    THEN [d1 |-> SetColumn(d1, col, "to_numeric", NumericDtype(d1, col)),
          d2 |-> SetColumn(d2, col, "to_numeric", NumericDtype(d2, col))]
    ELSE [d1 |-> SetColumn(d1, col, "astype_str", "object"),
          d2 |-> SetColumn(d2, col, "astype_str", "object")]

RECURSIVE AlignFrom(_, _, _, _)
\* The loop over the compared columns, from the i-th on.  A column missing
\* from df2 raises the ValueError; one missing from df1 only fails at df1[col].
AlignFrom(d1, d2, columns, i) ==
    IF i > Len(columns)
    THEN [err |-> "none", col |-> "", d1 |-> d1, d2 |-> d2]
    ELSE LET col == columns[i] IN
         IF col \notin Columns(d2)
         THEN [err |-> "ValueError", col |-> col, d1 |-> d1, d2 |-> d2]
         ELSE IF col \notin Columns(d1)
         THEN [err |-> "KeyError", col |-> col, d1 |-> d1, d2 |-> d2]
         ELSE LET al == AlignColumn(d1, d2, col)
              IN AlignFrom(al.d1, al.d2, columns, i + 1)

\* LeftOnly with null keys that match nothing, as in SQL.
LeftOnly_NullNeverMatches(left, right, columns) ==
    LET keep(row) == \/ Proj(row, columns) \notin Tuples(right, columns)
                     \/ HasNull(Proj(row, columns))
        sel == SelectSeq(left.rows, keep)
    IN [i \in 1..Len(sel) |-> Proj(sel[i], columns)]

\* LeftOnly as EXCEPT ALL: a row stays when left holds its tuple more often
\* than right.
LeftOnly_ExceptAll(left, right, columns) ==
    LET count(d, t) == Cardinality({i \in 1..Len(d.rows) : Proj(d.rows[i], columns) = t})
        keep(row) == count(left, Proj(row, columns)) > count(right, Proj(row, columns))
        sel == SelectSeq(left.rows, keep)
    IN [i \in 1..Len(sel) |-> Proj(sel[i], columns)]

\* LeftOnly without the query on _merge: every row of the left merge stays.
LeftOnly_NoQuery(left, right, columns) ==
    [i \in 1..Len(left.rows) |-> Proj(left.rows[i], columns)]

\* left.merge(right, on=columns, how='left', indicator=True)
\*     .query('_merge == "left_only"')[columns]
\* Null keys match each other in a merge.
LeftOnly(left, right, columns) ==
    LET keep(row) == Proj(row, columns) \notin Tuples(right, columns)
        sel == SelectSeq(left.rows, keep)
    IN [i \in 1..Len(sel) |-> Proj(sel[i], columns)]

Labelled(keys, label) ==
    [i \in 1..Len(keys) |-> [key |-> keys[i], diff_type |-> label]]

GroupLess(g, h) ==
    \/ TupleLess(g.key, h.key)
    \/ g.key = h.key /\ g.diff_type = SourceOnly /\ h.diff_type = TargetOnly

RECURSIVE SortGroups(_)
\* The groups of S in ascending order of their keys, as groupby(sort=True)
\* leaves them.
SortGroups(S) ==
    IF S = {} THEN <<>>
    ELSE LET m == CHOOSE x \in S : \A y \in S \ {x} : GroupLess(x, y)
         IN <<m>> \o SortGroups(S \ {m})

\* differences.groupby(columns + ['diff_type']).size().reset_index(name='count')
\* groupby drops the groups whose key holds a null and sorts by the key.
DiffCounts(differences) ==
    LET groups == {g \in Range(differences) : ~HasNull(g.key)}
        sorted == SortGroups(groups)
        size(g) == Cardinality({i \in DOMAIN differences : differences[i] = g})
    IN [i \in 1..Len(sorted) |->
           [key |-> sorted[i].key, diff_type |-> sorted[i].diff_type,
            count |-> size(sorted[i])]]

\* subset_columns or df1.columns.tolist()
CompareColumns(d1, subset) == IF subset # <<>> THEN subset ELSE d1.cols

\* check_data_full_data_set with the two merges on the DataFrames as they
\* were before the alignment.
check_data_full_data_set_MergeUnaligned(d1, d2, subset) ==
    LET columns == CompareColumns(d1, subset)
        al == AlignFrom(d1, d2, columns, 1)
        diff1 == Labelled(LeftOnly(d1, d2, columns), SourceOnly)
        diff2 == Labelled(LeftOnly(d2, d1, columns), TargetOnly)
        differences == diff1 \o diff2
    IN IF al.err # "none"
       THEN [outcome |-> al.err, col |-> al.col, report |-> <<>>,
             d1 |-> al.d1, d2 |-> al.d2]
       ELSE IF differences # <<>>
       THEN [outcome |-> "AssertionError", col |-> "",
             report |-> DiffCounts(differences), d1 |-> al.d1, d2 |-> al.d2]
       ELSE [outcome |-> "pass", col |-> "", report |-> <<>>,
             d1 |-> al.d1, d2 |-> al.d2]

check_data_full_data_set(d1, d2, subset) ==
    LET columns == CompareColumns(d1, subset)
        al == AlignFrom(d1, d2, columns, 1)
        diff1 == Labelled(LeftOnly(al.d1, al.d2, columns), SourceOnly)
        diff2 == Labelled(LeftOnly(al.d2, al.d1, columns), TargetOnly)
        differences == diff1 \o diff2
    IN IF al.err # "none"
       THEN [outcome |-> al.err, col |-> al.col, report |-> <<>>,
             d1 |-> al.d1, d2 |-> al.d2]
       ELSE IF differences # <<>>
       THEN [outcome |-> "AssertionError", col |-> "",
             report |-> DiffCounts(differences), d1 |-> al.d1, d2 |-> al.d2]
       ELSE [outcome |-> "pass", col |-> "", report |-> <<>>,
             d1 |-> al.d1, d2 |-> al.d2]

-----------------------------------------------------------------------------
(* check_duplicates                                                        *)

\* df[df.duplicated(subset=columns, keep=False)]: the rows whose tuple over
\* columns occurs in more than one row; nulls count as equal values.
Duplicated(df, columns) ==
    LET occurs(t) == Cardinality({i \in 1..Len(df.rows) :
                                     Proj(df.rows[i], columns) = t})
        dup(row) == occurs(Proj(row, columns)) > 1
        sel == SelectSeq(df.rows, dup)
    IN [i \in 1..Len(sel) |-> Proj(sel[i], columns)]

\* sort_values('count', ascending=False) of groups that groupby left in key
\* order.
DupLess(g, h) ==
    \/ g.count > h.count
    \/ g.count = h.count /\ TupleLess(g.key, h.key)

RECURSIVE SortDupCounts(_)
SortDupCounts(S) ==
    IF S = {} THEN <<>>
    ELSE LET m == CHOOSE x \in S : \A y \in S \ {x} : DupLess(x, y)
         IN <<m>> \o SortDupCounts(S \ {m})

\* duplicates.groupby(columns).size().reset_index(name='count')
\*     .sort_values('count', ascending=False)
DupCounts(duplicates) ==
    LET keys == {t \in Range(duplicates) : ~HasNull(t)}
        size(t) == Cardinality({i \in DOMAIN duplicates : duplicates[i] = t})
    IN SortDupCounts({[key |-> t, count |-> size(t)] : t \in keys})

check_duplicates(df, column_names) ==
    LET columns == IF column_names # <<>> THEN column_names ELSE df.cols
        missing == {i \in 1..Len(columns) : columns[i] \notin Columns(df)}
        duplicates == Duplicated(df, columns)
    IN IF missing # {}
       THEN [outcome |-> "KeyError", col |-> "", report |-> <<>>]
       ELSE IF duplicates # <<>>
       THEN [outcome |-> "AssertionError", col |-> "",
             report |-> DupCounts(duplicates)]
       ELSE [outcome |-> "pass", col |-> "", report |-> <<>>]

-----------------------------------------------------------------------------
(* check_count, check_dataset_is_not_empty, check_not_null_values          *)

check_count(d1, d2) ==
    IF Len(d1.rows) = Len(d2.rows)
    THEN [outcome |-> "pass", col |-> "", report |-> <<>>]
    ELSE [outcome |-> "AssertionError", col |-> "",
          report |-> <<[left |-> Len(d1.rows), right |-> Len(d2.rows)]>>]

check_dataset_is_not_empty(df) ==
    IF Len(df.rows) = 0 \/ Len(df.cols) = 0
    THEN [outcome |-> "AssertionError", col |-> "", report |-> <<>>]
    ELSE [outcome |-> "pass", col |-> "", report |-> <<>>]

ColumnHasNull(df, col) == \E i \in 1..Len(df.rows) : IsNull(df.rows[i][col])

RECURSIVE NotNullFrom(_, _, _)
\* The loop over column_names: the first column that is missing or holds a
\* null ends it.
NotNullFrom(df, column_names, i) ==
    IF i > Len(column_names)
    THEN [outcome |-> "pass", col |-> "", report |-> <<>>]
    ELSE LET col == column_names[i] IN
         IF col \notin Columns(df)
         THEN [outcome |-> "KeyError", col |-> col, report |-> <<>>]
         ELSE IF ColumnHasNull(df, col)
         THEN [outcome |-> "AssertionError", col |-> col, report |-> <<>>]
         ELSE NotNullFrom(df, column_names, i + 1)

\* check_not_null_values that checks no column when the list is empty.
check_not_null_values_EmptyListChecksNothing(df, column_names) ==
    NotNullFrom(df, column_names, 1)

check_not_null_values(df, column_names) ==
    IF column_names # <<>>
    THEN NotNullFrom(df, column_names, 1)
    ELSE IF \E c \in Columns(df) : ColumnHasNull(df, c)
    THEN [outcome |-> "AssertionError", col |-> "", report |-> <<>>]
    ELSE [outcome |-> "pass", col |-> "", report |-> <<>>]

-----------------------------------------------------------------------------
(* check_column_validity                                                   *)
(* column_rules is a sequence of rules, in the order of the dict; a rule   *)
(* is [column, keys, min, max, allowed_values, condition], keys being the  *)
(* keys present in the rule dictionary.                                    *)

\* The custom conditions of the model: lambda x: x != 0.
Condition(name, v) == name = "nonzero" /\ v # Num(0)

\* df[column] < bound and df[column] > bound, False for NaN.
BelowMin(v, bound) == v.kind = "num" /\ v.n < bound

AboveMax(v, bound) == v.kind = "num" /\ v.n > bound

\* The mask of one rule on one value.
InvalidMask(rule, v) ==
    \/ "min" \in rule.keys /\ BelowMin(v, rule.min)
    \/ "max" \in rule.keys /\ AboveMax(v, rule.max)
    \/ "allowed_values" \in rule.keys /\ v \notin rule.allowed_values
    \/ "condition" \in rule.keys /\ ~Condition(rule.condition, v)

\* The comparison with a number raises on a datetime column and on the
\* values of an object column; ~ raises on the float or datetime result that
\* apply returns for an empty column.
RuleRaises(df, rule) ==
    LET dt == df.dtype[rule.column] IN
    \/ /\ rule.keys \cap {"min", "max"} # {}
       /\ \/ IsDatetimeDtype(dt)
          \/ dt = "object" /\ Len(df.rows) > 0
    \/ /\ "condition" \in rule.keys
       /\ Len(df.rows) = 0
       /\ dt \in {"float64", "datetime"}

\* df.loc[invalid_mask, [column]].assign(invalid_column=column)
InvalidRows(df, rule) ==
    LET idx == {i \in 1..Len(df.rows) : InvalidMask(rule, df.rows[i][rule.column])}
        pick(i) == i \in idx
        sel == SelectSeq([i \in 1..Len(df.rows) |-> i], pick)
    IN [k \in 1..Len(sel) |->
           [index |-> sel[k], value |-> df.rows[sel[k]][rule.column],
            invalid_column |-> rule.column]]

RECURSIVE ValidityFrom_OncePerRow(_, _, _, _)
\* ValidityFrom that reports a row once, under the first column that flags it.
ValidityFrom_OncePerRow(df, column_rules, i, all_invalid_rows) ==
    IF i > Len(column_rules)
    THEN IF all_invalid_rows # <<>>
         THEN [outcome |-> "AssertionError", col |-> "",
               report |-> all_invalid_rows]
         ELSE [outcome |-> "pass", col |-> "", report |-> <<>>]
    ELSE LET rule == column_rules[i]
             seen == {all_invalid_rows[k].index : k \in DOMAIN all_invalid_rows}
             fresh(r) == r.index \notin seen
         IN IF rule.column \notin Columns(df)
            THEN [outcome |-> "KeyError", col |-> rule.column, report |-> <<>>]
            ELSE IF RuleRaises(df, rule)
            THEN [outcome |-> "TypeError", col |-> rule.column, report |-> <<>>]
            ELSE ValidityFrom_OncePerRow(df, column_rules, i + 1,
                     all_invalid_rows \o SelectSeq(InvalidRows(df, rule), fresh))

RECURSIVE ValidityFrom(_, _, _, _)
\* The loop over column_rules, all_invalid_rows being collected so far.
ValidityFrom(df, column_rules, i, all_invalid_rows) ==
    IF i > Len(column_rules)
    THEN IF all_invalid_rows # <<>>
         THEN [outcome |-> "AssertionError", col |-> "",
               report |-> all_invalid_rows]
         ELSE [outcome |-> "pass", col |-> "", report |-> <<>>]
    ELSE LET rule == column_rules[i] IN
         IF rule.column \notin Columns(df)
         THEN [outcome |-> "KeyError", col |-> rule.column, report |-> <<>>]
         ELSE IF RuleRaises(df, rule)
         THEN [outcome |-> "TypeError", col |-> rule.column, report |-> <<>>]
         ELSE ValidityFrom(df, column_rules, i + 1,
                           all_invalid_rows \o InvalidRows(df, rule))

check_column_validity(df, column_rules) ==
    ValidityFrom(df, column_rules, 1, <<>>)

-----------------------------------------------------------------------------
(* The DataFrames the fixtures can load.                                   *)

\* All DataFrames with the columns cols of the dtypes dtype, at most n rows,
\* the values of column c drawn from vals[c].
FramesOf(cols, dtype, n, vals) ==
    LET RowSet == {r \in [Range(cols) -> UNION {vals[c] : c \in Range(cols)}] :
                      \A c \in Range(cols) : r[c] \in vals[c]}
    IN {[cols |-> cols, dtype |-> dtype, rows |-> rs] :
           rs \in UNION {[1..k -> RowSet] : k \in 0..n}}

\* The values a column of each dtype holds.
DtypeValues(dt) ==
    CASE dt = "float64" -> {Num(1), Null}
      [] dt = "datetime" -> {Date(20240101), Null}
      [] OTHER -> {Str("1"), Str("2024-01-01"), Null}

\* source_data / target_data of a test module: column a of a float, date or
\* text dtype, and possibly a partition column b.
ModuleValues(c, dt) == IF c = "a" THEN DtypeValues(dt) ELSE {Num(1)}

ModuleDtypes == {"float64", "datetime", "object"}

ModuleFrames(n) ==
    UNION {FramesOf(<<"a">>, [c \in {"a"} |-> dt], n,
                   [c \in {"a"} |-> ModuleValues(c, dt)]) : dt \in ModuleDtypes}
    \cup
    UNION {FramesOf(<<"a", "b">>,
                   [c \in {"a", "b"} |-> IF c = "a" THEN dt ELSE "int64"], n,
                   [c \in {"a", "b"} |-> ModuleValues(c, dt)]) : dt \in ModuleDtypes}

\* The column lists a test passes; <<>> stands for None.
ColumnLists == {<<>>, <<"a">>, <<"b">>, <<"a", "b">>}

Rule(column, keys, min, max, allowed, condition) ==
    [column |-> column, keys |-> keys, min |-> min, max |-> max,
     allowed_values |-> allowed, condition |-> condition]

\* The column_rules a test module passes.
ModuleRules ==
    {<<Rule("a", {"min"}, 2, 0, {}, "")>>,
     <<Rule("a", {"allowed_values"}, 0, 0, {Num(1), Str("1")}, "")>>}

-----------------------------------------------------------------------------
(* The run of a test module on its module-scoped fixtures.                 *)

NoCheck ==
    [name |-> "none", cols |-> <<>>, rules |-> <<>>, outcome |-> "none",
     col |-> "", report |-> <<>>]

NoRerun == [is |-> FALSE, outcome |-> "none", col |-> "", report |-> <<>>]

Ran(name, cols, rules, res) ==
    [name |-> name, cols |-> cols, rules |-> rules, outcome |-> res.outcome,
     col |-> res.col, report |-> res.report]

\* The bookkeeping of one test: the arguments as passed, the result, and
\* the result of the test before when this one repeats it.
Record(name, cols, rules, res) ==
    /\ last' = Ran(name, cols, rules, res)
    /\ arg1' = df1
    /\ arg2' = df2
    /\ rerun' = IF last.name = name /\ last.cols = cols /\ last.rules = rules
                THEN [is |-> TRUE, outcome |-> last.outcome, col |-> last.col,
                      report |-> last.report]
                ELSE NoRerun
    /\ UNCHANGED <<db, pq>>

\* PostgresConnectorContextManager.__init__: no connection yet.
NewConnector(scope) ==
    [pc |-> "new", conn |-> "None", error |-> "none", queries |-> 0,
     scope |-> scope]

\* No path has been given to the reader.
NoPath ==
    [fs |-> [kind |-> "missing", files |-> <<>>],
     result |-> [outcome |-> "none", msg |-> "", file |-> <<>>, reads |-> <<>>,
                 frame |-> [cols |-> <<>>, rows |-> <<>>]]]

Loaded(frames1, frames2) ==
    /\ df1 \in frames1
    /\ df2 \in frames2
    /\ orig1 = df1
    /\ orig2 = df2
    /\ arg1 = df1
    /\ arg2 = df2
    /\ last = NoCheck
    /\ rerun = NoRerun
    /\ db = NewConnector(1)
    /\ pq = NoPath

Init == Loaded(ModuleFrames(MaxModuleRows), ModuleFrames(MaxModuleRows))

test_check_dataset_is_not_empty ==
    /\ Record("check_dataset_is_not_empty", <<>>, <<>>,
              check_dataset_is_not_empty(df1))
    /\ UNCHANGED <<df1, df2, orig1, orig2>>

test_check_duplicates ==
    \E cols \in ColumnLists :
        /\ Record("check_duplicates", cols, <<>>, check_duplicates(df1, cols))
        /\ UNCHANGED <<df1, df2, orig1, orig2>>

test_check_not_null_values ==
    \E cols \in ColumnLists :
        /\ Record("check_not_null_values", cols, <<>>,
                  check_not_null_values(df1, cols))
        /\ UNCHANGED <<df1, df2, orig1, orig2>>

test_check_count ==
    /\ Record("check_count", <<>>, <<>>, check_count(df1, df2))
    /\ UNCHANGED <<df1, df2, orig1, orig2>>

test_check_data_full_data_set ==
    \E cols \in ColumnLists :
        LET res == check_data_full_data_set(df1, df2, cols) IN
        /\ Record("check_data_full_data_set", cols, <<>>, res)
        /\ df1' = res.d1
        /\ df2' = res.d2
        /\ UNCHANGED <<orig1, orig2>>

CheckColumnValidity(RuleSets) ==
    \E rules \in RuleSets :
        /\ Record("check_column_validity", <<>>, rules,
                  check_column_validity(df1, rules))
        /\ UNCHANGED <<df1, df2, orig1, orig2>>

test_check_column_validity == CheckColumnValidity(ModuleRules)

\* pytest runs the tests of a module one after the other.
Next ==
    \/ test_check_dataset_is_not_empty
    \/ test_check_duplicates
    \/ test_check_not_null_values
    \/ test_check_count
    \/ test_check_data_full_data_set
    \/ test_check_column_validity

Spec == Init /\ [][Next]_vars

\* pytest -m source_to_target: the two source-to-target tests alone.
NextSourceToTarget ==
    \/ test_check_count
    \/ test_check_data_full_data_set

InitSourceToTarget == Loaded(ModuleFrames(MaxRows), ModuleFrames(MaxRows))

SpecSourceToTarget == InitSourceToTarget /\ [][NextSourceToTarget]_vars

\* pytest -m smoke: the three smoke tests on a source with numeric columns
\* a and b, a holding nulls.
SmokeValues(c) == IF c = "a" THEN {Num(1), Num(2), Null} ELSE {Num(1), Num(2)}

SmokeFrames ==
    FramesOf(<<"a", "b">>, [c \in {"a", "b"} |-> IF c = "a" THEN "float64" ELSE "int64"],
             MaxSmokeRows, [c \in {"a", "b"} |-> SmokeValues(c)])

InitSmoke == Loaded(SmokeFrames, {[cols |-> <<"a">>, dtype |-> [c \in {"a"} |-> "float64"],
                                  rows |-> <<>>]})

NextSmoke ==
    \/ test_check_dataset_is_not_empty
    \/ test_check_duplicates
    \/ test_check_not_null_values

SpecSmoke == InitSmoke /\ [][NextSmoke]_vars

\* pytest -m validity: check_column_validity on a source with a numeric
\* column cost (int64 without nulls, float64 with) and a numeric column b.
ValidityValues(c, dt) ==
    IF c = "b" THEN {Num(-5), Num(0)}
    ELSE IF dt = "int64" THEN {Num(-5), Num(0), Num(10)}
    ELSE {Num(-5), Num(0), Num(10), Null}

ValidityFrames ==
    UNION {FramesOf(<<"cost", "b">>,
                   [c \in {"cost", "b"} |-> IF c = "cost" THEN dt ELSE "int64"],
                   MaxValidityRows,
                   [c \in {"cost", "b"} |-> ValidityValues(c, dt)]) :
              dt \in {"int64", "float64"}}

\* The rules of column cost: any set of rule keys, the bounds 0 and 10.
CostRules ==
    {Rule("cost", keys, 0, max, {Num(0), Num(10)}, "nonzero") :
        keys \in (SUBSET {"min", "max", "allowed_values", "condition"}) \ {{}},
        max \in {0, 10}}

ValidityRules ==
    {<<r>> : r \in CostRules}
    \cup {<<r, Rule("b", {"min"}, 0, 0, {}, "")>> : r \in CostRules}
    \cup {<<Rule("b", {"min"}, 0, 0, {}, "")>>}

InitValidity ==
    Loaded(ValidityFrames, {[cols |-> <<"cost">>, dtype |-> [c \in {"cost"} |-> "float64"],
                            rows |-> <<>>]})

NextValidity == CheckColumnValidity(ValidityRules)

SpecValidity == InitValidity /\ [][NextValidity]_vars

-----------------------------------------------------------------------------
(* Properties of check_data_full_data_set and check_count.                 *)

LastFull == last.name = "check_data_full_data_set"

\* The columns the last check_data_full_data_set compared.
Compared == CompareColumns(arg1, last.cols)

ColumnsPresent ==
    \A i \in 1..Len(Compared) :
        Compared[i] \in Columns(arg1) /\ Compared[i] \in Columns(arg2)

Occurrences(df, columns, t) ==
    Cardinality({i \in 1..Len(df.rows) : Proj(df.rows[i], columns) = t})

\* The rows of d1 and d2, projected to columns, are the same up to their order.
SameRows(d1, d2, columns) ==
    \A t \in Tuples(d1, columns) \cup Tuples(d2, columns) :
        Occurrences(d1, columns, t) = Occurrences(d2, columns, t)

\* C1: when the rows of the two DataFrames, projected to the compared
\* columns, are identical up to reordering, check_data_full_data_set returns
\* normally with an empty diff, and check_count returns normally.
C1_IdenticalRowsPass ==
    /\ (LastFull /\ ColumnsPresent /\ SameRows(arg1, arg2, Compared))
           => /\ last.outcome = "pass"
              /\ last.report = <<>>
              /\ check_count(arg1, arg2).outcome = "pass"
    /\ (/\ last.name = "check_count"
        /\ Columns(arg1) \subseteq Columns(arg2)
        /\ SameRows(arg1, arg2, arg1.cols))
           => last.outcome = "pass"

\* C1 witness: two different rows in the source, the same two in the other
\* order in the target, one of them holding a null, and the check passed.
C1_Witness ==
    /\ LastFull /\ ColumnsPresent /\ SameRows(arg1, arg2, Compared)
    /\ Len(arg1.rows) = 2
    /\ Proj(arg1.rows[1], Compared) # Proj(arg1.rows[2], Compared)
    /\ Proj(arg1.rows[1], Compared) = Proj(arg2.rows[2], Compared)
    /\ HasNull(Proj(arg1.rows[1], Compared))
    /\ last.outcome = "pass"

\* C2 as claimed: every tuple of the aligned source that occurs in no row of
\* the aligned target, a tuple holding a null included, makes the check fail
\* and has exactly one record 'in source not in target' in the report, with
\* a count of at least one.
C2_OneRecordPerMissingTuple ==
    (LastFull /\ last.outcome \in {"pass", "AssertionError"})
        => \A t \in Tuples(df1, Compared) \ Tuples(df2, Compared) :
              /\ last.outcome = "AssertionError"
              /\ Cardinality({k \in DOMAIN last.report :
                                 /\ last.report[k].key = t
                                 /\ last.report[k].diff_type = SourceOnly
                                 /\ last.report[k].count >= 1}) = 1

\* C6 as claimed: the groups of the diff report are in descending order of
\* their counts.
C6_ReportDescendingByCount ==
    (LastFull /\ last.outcome = "AssertionError")
        => \A k \in 1..(Len(last.report) - 1) :
              last.report[k].count >= last.report[k + 1].count

\* C7 as claimed: a compared column absent from the source, from the target
\* or from both fails the check with the ValueError naming the column,
\* before any diff is computed.
C7_MissingColumnValueError ==
    (LastFull /\ ~ColumnsPresent)
        => /\ last.outcome = "ValueError"
           /\ last.col \in Range(Compared) \ (Columns(arg1) \cap Columns(arg2))
           /\ last.report = <<>>

\* The kind of values the claimed priority selects for two dtypes.
PriorityKind(dt1, dt2) ==
    IF "datetime" \in {dt1, dt2} THEN "date"
    ELSE IF {dt1, dt2} \cap {"int64", "float64"} # {} THEN "num"
    ELSE "str"

\* C8: with all compared columns present the alignment never raises; each
\* compared column ends, on both sides, with values of the kind the priority
\* date/time > numeric > text selects, or null; equal values of the two sides
\* stay equal; and the text '2024-01-01' of the source equals the date
\* 2024-01-01 of the target after the alignment.
C8_TypeAlignment ==
    (LastFull /\ ColumnsPresent)
        => /\ last.outcome \in {"pass", "AssertionError"}
           /\ \A k \in 1..Len(Compared) :
                 LET c == Compared[k]
                     kind == PriorityKind(arg1.dtype[c], arg2.dtype[c])
                 IN /\ \A i \in 1..Len(df1.rows) : df1.rows[i][c].kind \in {kind, "null"}
                    /\ \A j \in 1..Len(df2.rows) : df2.rows[j][c].kind \in {kind, "null"}
                    /\ \A i \in 1..Len(df1.rows), j \in 1..Len(df2.rows) :
                          /\ arg1.rows[i][c] = arg2.rows[j][c]
                                => df1.rows[i][c] = df2.rows[j][c]
                          /\ (/\ arg1.rows[i][c] = Str("2024-01-01")
                              /\ arg2.rows[j][c] = Date(20240101))
                                => /\ df1.rows[i][c] = df2.rows[j][c]
                                   /\ ~IsNull(df1.rows[i][c])
           /\ (/\ Compared = <<"a">>
               /\ Len(arg1.rows) > 0 /\ Len(arg2.rows) > 0
               /\ \A i \in 1..Len(arg1.rows) : arg1.rows[i].a = Str("2024-01-01")
               /\ \A j \in 1..Len(arg2.rows) : arg2.rows[j].a = Date(20240101))
                  => last.outcome = "pass"

\* C8 witness: a text column with the text of a date against a datetime
\* column with that date and an unparsable text against a null, judged equal.
C8_Witness ==
    /\ LastFull /\ Compared = <<"a">>
    /\ arg1.dtype.a = "object" /\ arg2.dtype.a = "datetime"
    /\ Len(arg1.rows) = 2 /\ Len(arg2.rows) = 2
    /\ arg1.rows[1].a = Str("2024-01-01") /\ arg2.rows[1].a = Date(20240101)
    /\ arg1.rows[2].a = Str("1") /\ arg2.rows[2].a = Null
    /\ df1.dtype.a = "datetime"
    /\ last.outcome = "pass"

-----------------------------------------------------------------------------
(* Properties of the checks of one module run on the shared fixtures.      *)

\* C3 as claimed: check_data_full_data_set leaves both DataFrames as they
\* were passed, values and dtypes.
C3_InputsUnchanged ==
    LastFull => df1 = arg1 /\ df2 = arg2

\* The result the check gives when it is run alone on the DataFrames as
\* loaded.
Alone(name, cols, rules) ==
    CASE name = "check_dataset_is_not_empty" -> check_dataset_is_not_empty(orig1)
      [] name = "check_duplicates" -> check_duplicates(orig1, cols)
      [] name = "check_not_null_values" -> check_not_null_values(orig1, cols)
      [] name = "check_count" -> check_count(orig1, orig2)
      [] name = "check_column_validity" -> check_column_validity(orig1, rules)
      [] OTHER -> check_data_full_data_set(orig1, orig2, cols)

\* C4 as claimed: whatever checks ran before it, the verdict of a check is
\* the verdict it gives when run alone on the DataFrames as loaded.
C4_VerdictAsAlone ==
    last.name # "none" => last.outcome = Alone(last.name, last.cols, last.rules).outcome

\* C5: a check run twice in a row with the same arguments gives the same
\* verdict and the same report both times.
C5_Idempotent ==
    rerun.is => /\ last.outcome = rerun.outcome
                /\ last.col = rerun.col
                /\ last.report = rerun.report

\* C5 witness: check_data_full_data_set failed with a report, coerced a
\* column of the source on its first run, and was run again.
C5_Witness ==
    /\ rerun.is /\ LastFull
    /\ df1 # orig1
    /\ last.outcome = "AssertionError" /\ last.report # <<>>

-----------------------------------------------------------------------------
(* Properties of check_duplicates.                                         *)

LastDuplicates == last.name = "check_duplicates" /\ last.outcome # "KeyError"

\* The columns the last check_duplicates looked at.
DupColumns == IF last.cols # <<>> THEN last.cols ELSE arg1.cols

\* The value combinations that occur in more than one row.
Repeated == {t \in Tuples(arg1, DupColumns) : Occurrences(arg1, DupColumns, t) > 1}

\* C9 as claimed: check_duplicates passes iff no value combination over the
\* columns looked at occurs in more than one row, and when it fails its
\* report holds exactly one group for each such combination, one holding a
\* null included, with the number of its occurrences, in descending order of
\* the counts.
C9_DuplicateGroups ==
    LastDuplicates
        => /\ (last.outcome = "pass") = (Repeated = {})
           /\ {last.report[k].key : k \in DOMAIN last.report} = Repeated
           /\ \A k \in DOMAIN last.report :
                 last.report[k].count = Occurrences(arg1, DupColumns, last.report[k].key)
           /\ \A j, k \in DOMAIN last.report :
                 /\ j # k => last.report[j].key # last.report[k].key
                 /\ j < k => last.report[j].count >= last.report[k].count

-----------------------------------------------------------------------------
(* Properties of check_column_validity.                                    *)

LastValidity == last.name = "check_column_validity"

\* The value v violates the rule, as C10 reads a rule.
Violates(rule, v) ==
    \/ "min" \in rule.keys /\ v.kind = "num" /\ v.n < rule.min
    \/ "max" \in rule.keys /\ v.kind = "num" /\ v.n > rule.max
    \/ "allowed_values" \in rule.keys /\ v \notin rule.allowed_values
    \/ "condition" \in rule.keys /\ ~Condition(rule.condition, v)

\* The (row, rule) pairs of the last check_column_validity that violate.
Flagged ==
    {<<i, k>> \in (1..Len(arg1.rows)) \X (1..Len(last.rules)) :
        Violates(last.rules[k], arg1.rows[i][last.rules[k].column])}

\* C10 as claimed: the check passes iff no row violates a rule of any
\* column, and the rows it reports for a column are exactly the rows whose
\* value violates a rule of that column.
C10_FlaggedIffViolates ==
    LastValidity
        => /\ (last.outcome = "pass") = (Flagged = {})
           /\ {<<last.report[k].index, last.report[k].invalid_column>> :
                   k \in DOMAIN last.report}
              = {<<f[1], last.rules[f[2]].column>> : f \in Flagged}

\* The records of the last report for row i under column c.
Reported(i, c) ==
    {k \in DOMAIN last.report :
        last.report[k].index = i /\ last.report[k].invalid_column = c}

\* The rows that violate the k-th rule of the last check_column_validity.
FlaggedBy(k) == {i \in 1..Len(arg1.rows) : <<i, k>> \in Flagged}

RECURSIVE SumFlagged(_)
\* The number of flagged rows, summed over the first k rules.
SumFlagged(k) == IF k = 0 THEN 0 ELSE Cardinality(FlaggedBy(k)) + SumFlagged(k - 1)

C12_ZeroRowsPass ==
    (LastValidity /\ Len(arg1.rows) = 0)
        => last.outcome = "pass" /\ last.report = <<>>

\* Row i of the aligned source is the one row the source holds beyond the
\* rows of the target: the other rows are the target's rows up to order, and
\* no row of the target holds its tuple.
ExtraRow(i) ==
    /\ i \in 1..Len(df1.rows)
    /\ Len(df1.rows) = Len(df2.rows) + 1
    /\ Proj(df1.rows[i], Compared) \notin Tuples(df2, Compared)
    /\ \A t \in Tuples(df2, Compared) :
          Occurrences(df1, Compared, t) = Occurrences(df2, Compared, t)

\* C13 as claimed: check_count passes iff the two DataFrames have the same
\* number of rows and otherwise reports the two numbers; and when the source
\* holds one row beyond the rows of the target, check_count fails and
\* check_data_full_data_set fails with that row as its one record, 'in
\* source not in target'.
C13_CountAndExtraRow ==
    /\ last.name = "check_count"
           => /\ (last.outcome = "pass") = (Len(arg1.rows) = Len(arg2.rows))
              /\ last.outcome # "pass"
                    => /\ last.outcome = "AssertionError"
                       /\ last.report = <<[left |-> Len(arg1.rows),
                                           right |-> Len(arg2.rows)]>>
    /\ (LastFull /\ ColumnsPresent)
           => \A i \in 1..Len(df1.rows) :
                 ExtraRow(i)
                    => /\ check_count(arg1, arg2).outcome = "AssertionError"
                       /\ last.outcome = "AssertionError"
                       /\ last.report = <<[key |-> Proj(df1.rows[i], Compared),
                                           diff_type |-> SourceOnly, count |-> 1]>>

LastNotNull == last.name = "check_not_null_values"

\* The columns the last check_not_null_values is to check.
NullChecked == IF last.cols = <<>> THEN Columns(arg1) ELSE Range(last.cols)

\* C14: check_not_null_values on columns of the DataFrame passes iff none of
\* them holds a null, and fails with AssertionError otherwise; without a
\* list of columns, or with an empty one, the columns are all the columns
\* of the DataFrame.
C14_NotNullIffNoNull ==
    (LastNotNull /\ Range(last.cols) \subseteq Columns(arg1))
        => /\ (last.outcome = "pass")
                 = (\A c \in NullChecked : ~ColumnHasNull(arg1, c))
           /\ last.outcome \in {"pass", "AssertionError"}

\* C14 witness: no list of columns, the only null of the DataFrame is in the
\* last row of column a, and the check failed.
C14_Witness ==
    /\ LastNotNull /\ last.cols = <<>>
    /\ Len(arg1.rows) >= 2
    /\ \A i \in 1..Len(arg1.rows), c \in Columns(arg1) :
          IsNull(arg1.rows[i][c]) = (i = Len(arg1.rows) /\ c = "a")
    /\ last.outcome = "AssertionError"

\* C18: when check_data_full_data_set gets to its verdict, it passes iff
\* the set of tuples the aligned source holds in the compared columns is the
\* set the aligned target holds; how often a tuple occurs, and the columns
\* outside the compared ones, do not enter.
C18_VerdictIsSetDifference ==
    (LastFull /\ last.outcome \in {"pass", "AssertionError"})
        => (last.outcome = "pass")
              = (Tuples(df1, Compared) = Tuples(df2, Compared))

\* C18 witness: the source holds one tuple twice and a column b that is not
\* compared, the target holds the tuple once and has no column b, and the
\* check passed.
C18_Witness ==
    /\ LastFull /\ last.outcome = "pass"
    /\ Compared = <<"a">>
    /\ "b" \in Columns(arg1) /\ "b" \notin Columns(arg2)
    /\ Len(arg1.rows) = 2 /\ Len(arg2.rows) = 1
    /\ arg1.rows[1].a = arg1.rows[2].a

\* The aligned DataFrame the rows under a label come from.
Origin(label) == IF label = SourceOnly THEN df1 ELSE df2

\* C19: in the diff report no tuple is under both labels, and the count of
\* a record is the number of rows of the aligned DataFrame of its label that
\* hold its tuple.
C19_OneLabelAndRowCount ==
    (LastFull /\ last.outcome = "AssertionError")
        => \A k \in DOMAIN last.report :
              /\ \A j \in DOMAIN last.report :
                    last.report[j].key = last.report[k].key
                        => last.report[j].diff_type = last.report[k].diff_type
              /\ last.report[k].count
                    = Occurrences(Origin(last.report[k].diff_type), Compared,
                                  last.report[k].key)
              /\ last.report[k].count >= 1

\* C19 witness: a report with a record of count 2 under one label and a
\* record under the other.
C19_Witness ==
    /\ LastFull /\ last.outcome = "AssertionError"
    /\ \E k, j \in DOMAIN last.report :
          /\ last.report[k].diff_type = SourceOnly /\ last.report[k].count = 2
          /\ last.report[j].diff_type = TargetOnly

\* C20 as claimed: when check_data_full_data_set ends with the error of a
\* column that one of the DataFrames lacks, both DataFrames are as they were
\* passed.
C20_UnchangedOnMissingColumn ==
    (LastFull /\ last.outcome \in {"ValueError", "KeyError"})
        => df1 = arg1 /\ df2 = arg2

-----------------------------------------------------------------------------
(* PostgresConnectorContextManager and the with scope around it.           *)
(* db.pc is the position of the scope: "new" before __enter__, "body"      *)
(* inside the with, "returned" / "raised" when the body has ended, "left"  *)
(* after __exit__, "failed" when __enter__ raised.  db.conn is self.conn:  *)
(* "None", an "open" or a "closed" connection.  db.error is the exception  *)
(* that leaves the scope.                                                  *)

\* __enter__: psycopg2.connect either returns a connection or raises, and
\* whatever it raises is raised again as ConnectionError.
__enter__(conn, connects) ==
    IF connects
    THEN [conn |-> "open", error |-> "none"]
    ELSE [conn |-> conn, error |-> "ConnectionError"]

\* __exit__ that closes the connection only when the body raised nothing.
__exit__OnSuccessOnly(conn, exc_type) ==
    IF conn # "None" /\ exc_type = "none" THEN "closed" ELSE conn

\* __exit__: if self.conn: self.conn.close(); the exception, if any, goes on.
__exit__(conn, exc_type) ==
    IF conn # "None" THEN "closed" ELSE conn

\* get_data_sql: the rows the cursor fetched as a DataFrame, or the error of
\* cursor(), execute or fetchall.
get_data_sql(conn, answer) ==
    IF conn = "open" /\ answer.ok
    THEN [error |-> "none", df |-> answer.df]
    ELSE [error |-> "DatabaseError", df |-> answer.df]

\* What the database does with a query: it fails, or it returns rows.
Answers ==
    {[ok |-> ok, df |-> f] : ok \in BOOLEAN, f \in ModuleFrames(MaxModuleRows)}

\* with PostgresConnectorContextManager(...) as db_connector:
Enter ==
    /\ db.pc = "new"
    /\ \E connects \in BOOLEAN :
          LET r == __enter__(db.conn, connects) IN
          db' = [db EXCEPT !.conn = r.conn, !.error = r.error,
                           !.pc = IF r.error = "none" THEN "body" ELSE "failed"]
    /\ UNCHANGED <<df1, df2, orig1, orig2, arg1, arg2, last, rerun, pq>>

\* The fixture target_data: a query in the body of the scope.  A query that
\* fails ends the body with its exception.
target_data ==
    /\ db.pc = "body"
    /\ db.queries < MaxQueries
    /\ \E answer \in Answers :
          LET r == get_data_sql(db.conn, answer) IN
          IF r.error = "none"
          THEN /\ df2' = r.df
               /\ orig2' = r.df
               /\ db' = [db EXCEPT !.queries = @ + 1]
          ELSE /\ db' = [db EXCEPT !.error = r.error, !.pc = "raised"]
               /\ UNCHANGED <<df2, orig2>>
    /\ UNCHANGED <<df1, orig1, arg1, arg2, last, rerun, pq>>

\* A check on the data fails inside the scope.
BodyRaises ==
    /\ db.pc = "body"
    /\ check_dataset_is_not_empty(df2).outcome # "pass"
    /\ db' = [db EXCEPT !.error = check_dataset_is_not_empty(df2).outcome,
                        !.pc = "raised"]
    /\ UNCHANGED <<df1, df2, orig1, orig2, arg1, arg2, last, rerun, pq>>

\* The body of the scope comes to its end.
BodyReturns ==
    /\ db.pc = "body"
    /\ db' = [db EXCEPT !.pc = "returned"]
    /\ UNCHANGED <<df1, df2, orig1, orig2, arg1, arg2, last, rerun, pq>>

\* Leaving the scope: __exit__ runs with the exception of the body.
Exit ==
    /\ db.pc \in {"returned", "raised"}
    /\ db' = [db EXCEPT !.conn = __exit__(db.conn, db.error), !.pc = "left"]
    /\ UNCHANGED <<df1, df2, orig1, orig2, arg1, arg2, last, rerun, pq>>

\* The next with statement makes a new connector.
NextScope ==
    /\ db.pc \in {"left", "failed"}
    /\ db.scope < MaxScopes
    /\ db' = NewConnector(db.scope + 1)
    /\ UNCHANGED <<df1, df2, orig1, orig2, arg1, arg2, last, rerun, pq>>

NotLoaded == [cols |-> <<>>, dtype |-> <<>>, rows |-> <<>>]

InitConnector == Loaded({NotLoaded}, {NotLoaded})

NextConnector ==
    \/ Enter
    \/ target_data
    \/ BodyRaises
    \/ BodyReturns
    \/ Exit
    \/ NextScope

SpecConnector == InitConnector /\ [][NextConnector]_vars

\* C15: a connection is open only inside the scope; when the scope has
\* been left, after a body that returned or raised, the connection that was
\* opened on entry is closed; and when the connect failed, the error is
\* ConnectionError and there is no connection.
C15_ConnectionScoped ==
    /\ db.conn = "open" => db.pc \in {"body", "returned", "raised"}
    /\ db.pc = "left" => db.conn = "closed"
    /\ db.pc = "failed" => db.error = "ConnectionError" /\ db.conn = "None"
    /\ db.pc \in {"body", "returned", "raised"} => db.conn = "open"

\* C15 witness: the second query of a scope failed, the scope has been left
\* with its error, and the connection is closed.
C15_Witness ==
    /\ db.pc = "left" /\ db.error = "DatabaseError"
    /\ db.queries = 1 /\ Len(df2.rows) = 1
    /\ db.conn = "closed"

-----------------------------------------------------------------------------
(* ParquetReader.process                                                   *)
(* pq.fs is what is at the path: its kind ("missing", "file", "dir",       *)
(* "other") and its files in the order os.walk yields them; a file has the *)
(* directory it is in, as the segments of the path relative to the root,   *)
(* its name, and what pd.read_parquet makes of it.  A segment is a         *)
(* sequence of characters, a name a sequence of its parts, the extensions  *)
(* last.  The DataFrames of the reader have no dtype: a cell is the null,  *)
(* a text, or the value of one row of one file.                            *)

PqNull == [kind |-> "null", text |-> <<>>, file |-> 0, row |-> 0]

PqText(t) == [kind |-> "text", text |-> t, file |-> 0, row |-> 0]

PqData(f, r) == [kind |-> "data", text |-> <<>>, file |-> f, row |-> r]

\* The column every file holds.
DataColumn == <<"x">>

NoFrame == [cols |-> <<>>, rows |-> <<>>]

\* file.endswith(('.parquet', '.pq'))
EndsWith(name, suffixes) == Len(name) > 0 /\ name[Len(name)] \in suffixes

Matches(file) == EndsWith(file.name, {".parquet", ".pq"})

\* pd.read_parquet(file_path) of the f-th file of the walk, when it parses.
read_parquet(f, file) ==
    [cols |-> <<DataColumn>>,
     rows |-> [r \in 1..file.nrows |-> [c \in {DataColumn} |-> PqData(f, r)]]]

\* part.split('=', 1) that splits at the last '='.
SplitKeyValue_AtLast(part) ==
    LET i == CHOOSE k \in 1..Len(part) :
                 part[k] = "=" /\ \A j \in (k + 1)..Len(part) : part[j] # "="
    IN [key |-> SubSeq(part, 1, i - 1), value |-> SubSeq(part, i + 1, Len(part))]

\* key, value = part.split('=', 1)
SplitKeyValue(part) ==
    LET i == CHOOSE k \in 1..Len(part) :
                 part[k] = "=" /\ \A j \in 1..(k - 1) : part[j] # "="
    IN [key |-> SubSeq(part, 1, i - 1), value |-> SubSeq(part, i + 1, Len(part))]

\* df[key] = value: a new last column, or a column that is overwritten.
SetPartition(df, key, value) ==
    LET cols == IF key \in Range(df.cols) THEN df.cols ELSE Append(df.cols, key)
    IN [cols |-> cols,
        rows |-> [i \in 1..Len(df.rows) |->
                     [c \in Range(cols) |->
                         IF c = key THEN PqText(value) ELSE df.rows[i][c]]]]

RECURSIVE AddPartitions(_, _, _)
\* The loop over rel_path.split(os.sep), from the i-th segment on; the
\* relative path of the root itself is '.', and no segment.
AddPartitions(df, partitions, i) ==
    IF i > Len(partitions) THEN df
    ELSE IF "=" \in Range(partitions[i])
    THEN LET kv == SplitKeyValue(partitions[i])
         IN AddPartitions(SetPartition(df, kv.key, kv.value), partitions, i + 1)
    ELSE AddPartitions(df, partitions, i + 1)

RECURSIVE UnionColumns(_, _)
\* The columns of dfs[i..] in the order of their first appearance.
UnionColumns(dfs, i) ==
    IF i > Len(dfs) THEN <<>>
    ELSE LET rest == UnionColumns(dfs, i + 1)
             new(c) == c \notin Range(dfs[i].cols)
         IN dfs[i].cols \o SelectSeq(rest, new)

RECURSIVE ConcatRows(_, _, _)
ConcatRows(dfs, cols, i) ==
    IF i > Len(dfs) THEN <<>>
    ELSE [r \in 1..Len(dfs[i].rows) |->
             [c \in Range(cols) |->
                 IF c \in Range(dfs[i].cols) THEN dfs[i].rows[r][c] ELSE PqNull]]
         \o ConcatRows(dfs, cols, i + 1)

\* pd.concat(dfs, ignore_index=True): a row has the null in the columns its
\* DataFrame lacks.
Concat(dfs) ==
    LET cols == UnionColumns(dfs, 1)
    IN [cols |-> cols, rows |-> ConcatRows(dfs, cols, 1)]

FilePath(file) == file.dir \o <<file.name>>

Raised(outcome, msg, file, reads) ==
    [outcome |-> outcome, msg |-> msg, file |-> file, reads |-> reads,
     frame |-> NoFrame]

RECURSIVE WalkFrom_SkipsUnreadable(_, _, _, _)
\* WalkFrom that goes on to the next file when one does not parse.
WalkFrom_SkipsUnreadable(files, i, dfs, reads) ==
    IF i > Len(files)
    THEN IF dfs = <<>>
         THEN Raised("RuntimeError", "No Parquet files found in directory", <<>>, reads)
         ELSE [outcome |-> "ok", msg |-> "", file |-> <<>>, reads |-> reads,
               frame |-> Concat(dfs)]
    ELSE IF ~Matches(files[i])
    THEN WalkFrom_SkipsUnreadable(files, i + 1, dfs, reads)
    ELSE IF ~files[i].ok
    THEN WalkFrom_SkipsUnreadable(files, i + 1, dfs, Append(reads, i))
    ELSE WalkFrom_SkipsUnreadable(files, i + 1,
             Append(dfs, AddPartitions(read_parquet(i, files[i]), files[i].dir, 1)),
             Append(reads, i))

RECURSIVE WalkFrom(_, _, _, _)
\* The loops over os.walk(path), from the i-th file on, and the return.
WalkFrom(files, i, dfs, reads) ==
    IF i > Len(files)
    THEN IF dfs = <<>>
         THEN Raised("RuntimeError", "No Parquet files found in directory", <<>>, reads)
         ELSE [outcome |-> "ok", msg |-> "", file |-> <<>>, reads |-> reads,
               frame |-> Concat(dfs)]
    ELSE IF ~Matches(files[i])
    THEN WalkFrom(files, i + 1, dfs, reads)
    ELSE IF ~files[i].ok
    THEN Raised("RuntimeError", "Failed to read Parquet file", FilePath(files[i]),
                Append(reads, i))
    ELSE WalkFrom(files, i + 1,
             Append(dfs, AddPartitions(read_parquet(i, files[i]), files[i].dir, 1)),
             Append(reads, i))

process(fs) ==
    IF fs.kind = "missing"
    THEN Raised("FileNotFoundError", "Path does not exist", <<>>, <<>>)
    ELSE IF fs.kind = "file"
    THEN IF fs.files[1].ok
         THEN [outcome |-> "ok", msg |-> "", file |-> <<>>, reads |-> <<1>>,
               frame |-> Concat(<<read_parquet(1, fs.files[1])>>)]
         ELSE Raised("RuntimeError", "Failed to read Parquet file",
                     FilePath(fs.files[1]), <<1>>)
    ELSE IF fs.kind = "dir"
    THEN WalkFrom(fs.files, 1, <<>>, <<>>)
    ELSE Raised("ValueError", "Path is neither a file nor a directory", <<>>, <<>>)

\* The directories under the root in the top-down order of os.walk: the
\* root, k=v, k=v/j=u, k=v/k=u, d, d/k=v=w.
WalkDirs ==
    << <<>>,
       << <<"k", "=", "v">> >>,
       << <<"k", "=", "v">>, <<"j", "=", "u">> >>,
       << <<"k", "=", "v">>, <<"k", "=", "u">> >>,
       << <<"d">> >>,
       << <<"d">>, <<"k", "=", "v", "=", "w">> >> >>

WalkIndex(dir) == CHOOSE i \in DOMAIN WalkDirs : WalkDirs[i] = dir

FileNames ==
    {<<"f", ".parquet">>, <<"f", ".pq">>, <<"f", ".csv">>,
     <<"f", ".parquet", ".bak">>}

\* A file: one with a matching name parses to some rows or does not parse;
\* of the others only the name counts.
Files ==
    {[dir |-> WalkDirs[d], name |-> n, ok |-> ok, nrows |-> k] :
        d \in DOMAIN WalkDirs, n \in FileNames, ok \in BOOLEAN, k \in 0..MaxFileRows}

IsFile(file) ==
    IF EndsWith(file.name, {".parquet", ".pq"})
    THEN file.ok \/ file.nrows = 0
    ELSE file.ok /\ file.nrows = 0

\* The files of a directory tree: two files have different paths, and a
\* directory comes after the directories os.walk visits before it.
IsWalk(files) ==
    /\ \A i \in DOMAIN files : IsFile(files[i])
    /\ \A i, j \in DOMAIN files :
          i < j => /\ WalkIndex(files[i].dir) <= WalkIndex(files[j].dir)
                   /\ FilePath(files[i]) # FilePath(files[j])

Walks == UNION {{w \in [1..n -> Files] : IsWalk(w)} : n \in 0..MaxFiles}

FileSystems ==
    {[kind |-> k, files |-> <<>>] : k \in {"missing", "other"}}
    \cup {[kind |-> "file", files |-> <<f>>] :
              f \in {g \in Files : g.dir = <<>> /\ (g.ok \/ g.nrows = 0)}}
    \cup {[kind |-> "dir", files |-> w] : w \in Walks}

\* The DataFrame of the reader as source_data.
AsSource(frame) ==
    [cols |-> frame.cols, dtype |-> [c \in Range(frame.cols) |-> "object"],
     rows |-> frame.rows]

InitReader ==
    /\ df1 = NotLoaded /\ df2 = NotLoaded
    /\ orig1 = df1 /\ orig2 = df2
    /\ arg1 = df1 /\ arg2 = df2
    /\ last = NoCheck /\ rerun = NoRerun
    /\ db = NewConnector(1)
    /\ pq \in {[fs |-> fs, result |-> NoPath.result] : fs \in FileSystems}

\* The fixture source_data: parquet_reader.process(source_path).  When
\* process raises, the fixture has no DataFrame.
source_data ==
    /\ pq.result.outcome = "none"
    /\ LET res == process(pq.fs) IN
       /\ pq' = [pq EXCEPT !.result = res]
       /\ IF res.outcome = "ok"
          THEN df1' = AsSource(res.frame) /\ orig1' = AsSource(res.frame)
          ELSE UNCHANGED <<df1, orig1>>
    /\ UNCHANGED <<df2, orig2, arg1, arg2, last, rerun, db>>

NextReader == source_data

SpecReader == InitReader /\ [][NextReader]_vars

Processed == pq.result.outcome # "none"

\* The matching files of the walk, by their place in it.
Matching == {i \in DOMAIN pq.fs.files : Matches(pq.fs.files[i])}

Unreadable == {i \in Matching : ~pq.fs.files[i].ok}

\* C16: a path that does not exist raises FileNotFoundError and no file is
\* read; a directory without a file named .parquet or .pq anywhere in it
\* raises RuntimeError; a file to read that does not parse raises
\* RuntimeError for the path of that file, the first such of the walk; and
\* whenever process raises, nothing is returned: the fixture has no
\* DataFrame, not one of the files read before.
C16_FailuresByCause ==
    Processed
        => /\ pq.fs.kind = "missing"
                 => /\ pq.result.outcome = "FileNotFoundError"
                    /\ pq.result.reads = <<>>
           /\ (pq.fs.kind = "dir" /\ Matching = {})
                 => /\ pq.result.outcome = "RuntimeError"
                    /\ pq.result.msg = "No Parquet files found in directory"
                    /\ pq.result.reads = <<>>
           /\ (pq.fs.kind = "dir" /\ Unreadable # {})
                 => \E i \in Unreadable :
                       /\ \A j \in Unreadable : i <= j
                       /\ pq.result.outcome = "RuntimeError"
                       /\ pq.result.msg = "Failed to read Parquet file"
                       /\ pq.result.file = FilePath(pq.fs.files[i])
           /\ (pq.fs.kind = "file" /\ ~pq.fs.files[1].ok)
                 => /\ pq.result.outcome = "RuntimeError"
                    /\ pq.result.msg = "Failed to read Parquet file"
                    /\ pq.result.file = FilePath(pq.fs.files[1])
           /\ pq.result.outcome # "ok"
                 => pq.result.frame = NoFrame /\ df1 = NotLoaded

\* C16 witness: the first file of a directory parsed to a row, the second
\* did not parse, and process raised for the second with nothing returned.
C16_Witness ==
    /\ Processed /\ pq.fs.kind = "dir"
    /\ Len(pq.fs.files) = 2
    /\ pq.fs.files[1].ok /\ pq.fs.files[1].nrows = 1 /\ Matches(pq.fs.files[1])
    /\ Unreadable = {2}
    /\ pq.result.reads = <<1, 2>>
    /\ pq.result.outcome = "RuntimeError"
    /\ pq.result.frame = NoFrame

\* The segments of a directory that are of the form key=value, by place.
KeyValueSegments(dir) == {p \in DOMAIN dir : "=" \in Range(dir[p])}

\* The place of the first '=' of a segment.
FirstEquals(part) ==
    CHOOSE k \in 1..Len(part) : part[k] = "=" /\ \A j \in 1..(k - 1) : part[j] # "="

KeyOf(part) == SubSeq(part, 1, FirstEquals(part) - 1)

ValueOf(part) == SubSeq(part, FirstEquals(part) + 1, Len(part))

\* The keys of the key=value segments of a directory.
KeysOf(dir) == {KeyOf(dir[p]) : p \in KeyValueSegments(dir)}

\* The rows of the returned DataFrame that hold row r of the i-th file.
RowsOf(i, r) ==
    {n \in DOMAIN pq.result.frame.rows :
        pq.result.frame.rows[n][DataColumn] = PqData(i, r)}

RECURSIVE SumRows(_)
\* The rows of the matching files among the first i files of the walk.
SumRows(i) ==
    IF i = 0 THEN 0
    ELSE SumRows(i - 1) + IF i \in Matching THEN pq.fs.files[i].nrows ELSE 0

ReadDirectory == Processed /\ pq.fs.kind = "dir" /\ pq.result.outcome = "ok"

\* The returned DataFrame is the rows of the matching files, each once and
\* in the order of the walk, and its columns are the data column and the
\* keys of the paths.
IsConcatenation ==
    /\ Len(pq.result.frame.rows) = SumRows(Len(pq.fs.files))
    /\ \A i \in Matching : \A r \in 1..pq.fs.files[i].nrows :
          /\ RowsOf(i, r) = {SumRows(i - 1) + r}
    /\ Range(pq.result.frame.cols)
          = {DataColumn} \cup UNION {KeysOf(pq.fs.files[i].dir) : i \in Matching}

\* C17 as claimed: the DataFrame of a directory is the concatenation of the
\* rows of the matching files, and a row has, for every key=value segment
\* of the directory of its file, the column key holding value, and the null
\* in the columns of keys that are not of its path.
C17_ColumnPerSegment ==
    ReadDirectory
        => /\ IsConcatenation
           /\ \A i \in Matching : \A n \in DOMAIN pq.result.frame.rows :
                 (\E r \in 1..pq.fs.files[i].nrows : n \in RowsOf(i, r))
                    => LET dir == pq.fs.files[i].dir
                           row == pq.result.frame.rows[n]
                       IN /\ \A p \in KeyValueSegments(dir) :
                                row[KeyOf(dir[p])] = PqText(ValueOf(dir[p]))
                          /\ \A c \in Range(pq.result.frame.cols) :
                                c \notin KeysOf(dir) \cup {DataColumn}
                                    => row[c] = PqNull

\* C17: the DataFrame of a directory is the concatenation of the rows of
\* the matching files, and a row has, for every key of the key=value
\* segments of the directory of its file, the column key holding the value
\* of the last segment with that key, and the null in the columns of keys
\* that are not of its path.
C17_ColumnPerKey ==
    ReadDirectory
        => /\ IsConcatenation
           /\ \A i \in Matching : \A n \in DOMAIN pq.result.frame.rows :
                 (\E r \in 1..pq.fs.files[i].nrows : n \in RowsOf(i, r))
                    => LET dir == pq.fs.files[i].dir
                           row == pq.result.frame.rows[n]
                           last_of(p) == \A q \in KeyValueSegments(dir) :
                                            KeyOf(dir[q]) = KeyOf(dir[p]) => q <= p
                       IN /\ \A p \in KeyValueSegments(dir) :
                                last_of(p)
                                    => row[KeyOf(dir[p])] = PqText(ValueOf(dir[p]))
                          /\ \A c \in Range(pq.result.frame.cols) :
                                c \notin KeysOf(dir) \cup {DataColumn}
                                    => row[c] = PqNull

\* C17 witness: a file in the root and a file in k=v/k=u, each with a row;
\* the row of the first has the null in column k, the row of the second u.
C17_Witness ==
    /\ ReadDirectory /\ Len(pq.fs.files) = 2 /\ Matching = {1, 2}
    /\ pq.fs.files[1].dir = <<>> /\ pq.fs.files[1].nrows = 1
    /\ pq.fs.files[2].dir = WalkDirs[4] /\ pq.fs.files[2].nrows = 1
    /\ pq.result.frame.cols = <<DataColumn, <<"k">> >>
    /\ pq.result.frame.rows[1][<<"k">>] = PqNull
    /\ pq.result.frame.rows[2][<<"k">>] = PqText(<<"u">>)

-----------------------------------------------------------------------------
(* compare_dataframes of the report helper (Robot Framework/helper.py).    *)
(* df1 is df_html, the table read from the report, all of its cells texts; *)
(* df2 is df_parquet.  Both are renamed into new DataFrames, so the        *)
(* arguments stay as they are.                                             *)

\* x.strip().lower() on the column names of the model.
StripLower(x) ==
    CASE x = "Facility Type" -> "facility type"
      [] x = " visit date" -> "visit date"
      [] x = "Average Time Spent" -> "average time spent"
      [] OTHER -> x

\* column_mapping.get(x, x)
column_mapping(x) ==
    CASE x = "average time spent" -> "avg_time_spent"
      [] x = "facility type" -> "facility_type"
      [] x = "visit date" -> "visit_date"
      [] OTHER -> x

\* df.rename(columns=...) with the new name NewName[c] of each column c.
Renamed(df, NewName) ==
    [cols |-> [i \in 1..Len(df.cols) |-> NewName[df.cols[i]]],
     dtype |-> [c \in {NewName[d] : d \in Columns(df)} |->
                  df.dtype[CHOOSE d \in Columns(df) : NewName[d] = c]],
     rows |-> [i \in 1..Len(df.rows) |->
                  [c \in {NewName[d] : d \in Columns(df)} |->
                      df.rows[i][CHOOSE d \in Columns(df) : NewName[d] = c]]]]

\* df[columns]
Select(df, columns) ==
    [cols |-> columns,
     dtype |-> [c \in Range(columns) |-> df.dtype[c]],
     rows |-> [i \in 1..Len(df.rows) |-> [c \in Range(columns) |-> df.rows[i][c]]]]

\* 'date' in col
IsDateColumn(col) == col \in {"visit_date", "visit date"}

\* astype(str) on one value of a date column: a text stays, a date is
\* written yyyy-mm-dd.
DateAsStr(v) ==
    CASE v.kind = "str" -> v
      [] v.kind = "date" /\ v.n = 20240101 -> Str("2024-01-01")
      [] OTHER -> Str("None")

\* float(v) is defined: a number, or a text that is a number.
IsFloat(v) == v.kind = "num" \/ (v.kind = "str" /\ v.s = "1")

\* astype(float) on one value that IsFloat.
AsFloat(v) == IF v.kind = "num" THEN v ELSE Num(1)

\* df[col] = df[col].astype(...) on the columns named date and on
\* avg_time_spent, for the columns among cols that df has.
Typed(df, cols) ==
    [cols |-> df.cols,
     dtype |-> [c \in Columns(df) |->
                  IF c \in cols /\ IsDateColumn(c) THEN "object"
                  ELSE IF c = "avg_time_spent" THEN "float64"
                  ELSE df.dtype[c]],
     rows |-> [i \in 1..Len(df.rows) |->
                  [c \in Columns(df) |->
                      IF c \in cols /\ IsDateColumn(c) THEN DateAsStr(df.rows[i][c])
                      ELSE IF c = "avg_time_spent" /\ IsFloat(df.rows[i][c])
                      THEN AsFloat(df.rows[i][c])
                      ELSE df.rows[i][c]]]]

RECURSIVE SortRows(_, _)
\* rows in ascending order of their values in sort_cols, rows with the same
\* values in their order in rows.
SortRows(rows, sort_cols) ==
    IF rows = <<>> THEN <<>>
    ELSE LET m == CHOOSE i \in DOMAIN rows :
                      \A j \in DOMAIN rows :
                          /\ ~TupleLess(Proj(rows[j], sort_cols), Proj(rows[i], sort_cols))
                          /\ j < i => TupleLess(Proj(rows[i], sort_cols),
                                                Proj(rows[j], sort_cols))
             rest == [k \in 1..(Len(rows) - 1) |-> IF k < m THEN rows[k] ELSE rows[k + 1]]
         IN <<rows[m]>> \o SortRows(rest, sort_cols)

\* df.sort_values(by=sort_cols).reset_index(drop=True)
sort_values(df, sort_cols) == [df EXCEPT !.rows = SortRows(df.rows, sort_cols)]

\* map_columns_for_comparison: the renamed HTML table cut to the columns of
\* the Parquet dataset, both typed and sorted; astype(float) raises
\* ValueError on a cell that is not a number.
map_columns_for_comparison(df_html, df_parquet) ==
    LET html == Renamed(df_html, [c \in Columns(df_html) |-> StripLower(c)])
        parquet == Renamed(df_parquet, [c \in Columns(df_parquet) |-> StripLower(c)])
        mapped == Renamed(html, [c \in Columns(html) |-> column_mapping(c)])
        in_parquet(c) == c \in Columns(parquet)
        cut == Select(mapped, SelectSeq(mapped.cols, in_parquet))
        in_cut(c) == c \in Columns(cut)
        sort_cols == SelectSeq(<<"facility_type", "visit_date", "avg_time_spent">>, in_cut)
        raises(df) == /\ "avg_time_spent" \in Columns(df)
                      /\ \E i \in 1..Len(df.rows) : ~IsFloat(df.rows[i].avg_time_spent)
    IN IF raises(cut) \/ raises(parquet)
       THEN [error |-> "ValueError", df_html_mapped |-> cut,
             df_parquet_sorted |-> parquet]
       ELSE [error |-> "none",
             df_html_mapped |-> sort_values(Typed(cut, Columns(cut)), sort_cols),
             df_parquet_sorted |-> sort_values(Typed(parquet, Columns(cut)), sort_cols)]

\* df.assign(_origin=origin), as rows over the columns cols and _origin; a
\* row has the null in the columns of cols that df lacks, as pd.concat
\* leaves it.
WithOrigin(df, cols, origin) ==
    [i \in 1..Len(df.rows) |->
        [c \in cols \cup {"_origin"} |->
            IF c = "_origin" THEN Str(origin)
            ELSE IF c \in Columns(df) THEN df.rows[i][c] ELSE Null]]

\* drop_duplicates(keep=False): the rows that are equal to no other row, in
\* all of their columns.
drop_duplicates(rows) ==
    LET once(r) == Cardinality({i \in DOMAIN rows : rows[i] = r}) = 1
    IN SelectSeq(rows, once)

\* compare_dataframes: outcome is the first element of the pair returned,
\* report the rows of the second.
compare_dataframes(df_html, df_parquet) ==
    LET m == map_columns_for_comparison(df_html, df_parquet)
        cols == Columns(m.df_html_mapped) \cup Columns(m.df_parquet_sorted)
    IN IF m.error # "none"
       THEN [outcome |-> m.error, col |-> "avg_time_spent", report |-> <<>>]
       ELSE IF m.df_html_mapped = m.df_parquet_sorted
       THEN [outcome |-> "True", col |-> "", report |-> <<>>]
       ELSE [outcome |-> "False", col |-> "",
             report |-> drop_duplicates(WithOrigin(m.df_html_mapped, cols, "HTML")
                                        \o WithOrigin(m.df_parquet_sorted, cols, "PARQUET"))]

\* The cells of the HTML table are texts; the Parquet dataset holds texts,
\* dates and numbers.
ReportValues(c) ==
    CASE c \in {"Facility Type", "facility_type"} -> {Str("Clinic"), Str("Hospital")}
      [] c = " visit date" -> {Str("2024-01-01")}
      [] c = "visit_date" -> {Date(20240101)}
      [] c = "Average Time Spent" -> {Str("1"), Str("None")}
      [] OTHER -> {Num(1), Num(2)}

HtmlColumns == <<"Facility Type", " visit date", "Average Time Spent">>

HtmlFrames ==
    FramesOf(HtmlColumns, [c \in Range(HtmlColumns) |-> "object"], MaxReportRows,
             [c \in Range(HtmlColumns) |-> ReportValues(c)])

ParquetDtype(c) == IF c = "avg_time_spent" THEN "float64" ELSE "object"

ParquetFrames ==
    UNION {FramesOf(cols, [c \in Range(cols) |-> ParquetDtype(c)], MaxReportRows,
                    [c \in Range(cols) |-> ReportValues(c)]) :
              cols \in {<<"facility_type", "visit_date", "avg_time_spent">>,
                        <<"facility_type", "avg_time_spent">>}}

InitReport == Loaded(HtmlFrames, ParquetFrames)

\* The script: is_equal, diff = compare_dataframes(df_html_filtered, df_parquet)
CompareReport ==
    /\ Record("compare_dataframes", <<>>, <<>>, compare_dataframes(df1, df2))
    /\ UNCHANGED <<df1, df2, orig1, orig2>>

NextReport == CompareReport

SpecReport == InitReport /\ [][NextReport]_vars

LastCompare == last.name = "compare_dataframes"

\* The two datasets the last compare_dataframes compared.
Mapped == map_columns_for_comparison(arg1, arg2)

\* The data of a row of the diff: the row without its column _origin.
Data(r) == [c \in (DOMAIN r) \ {"_origin"} |-> r[c]]

\* The rows of a mapped dataset over the columns of the diff.
RowsIn(df) ==
    {Data(WithOrigin(df, Columns(Mapped.df_html_mapped)
                             \cup Columns(Mapped.df_parquet_sorted), "")[i]) :
        i \in 1..Len(df.rows)}

InDiff(t, origin) ==
    \E k \in DOMAIN last.report :
        Data(last.report[k]) = t /\ last.report[k]["_origin"] = Str(origin)

\* C21 as claimed: compare_dataframes returns True with an empty diff iff
\* the mapped and sorted datasets are equal; and when it returns False, no
\* row that both datasets hold is in the diff, and every row that only one
\* of them holds is in the diff with that dataset as its origin.
C21_DiffIsSymmetricDifference ==
    (LastCompare /\ last.outcome \in {"True", "False"})
        => /\ (last.outcome = "True")
                 = (Mapped.df_html_mapped = Mapped.df_parquet_sorted)
           /\ last.outcome = "True" => last.report = <<>>
           /\ last.outcome = "False"
                 => LET html == RowsIn(Mapped.df_html_mapped)
                        parquet == RowsIn(Mapped.df_parquet_sorted)
                    IN /\ \A t \in html \cap parquet :
                             ~InDiff(t, "HTML") /\ ~InDiff(t, "PARQUET")
                       /\ \A t \in html \ parquet : InDiff(t, "HTML")
                       /\ \A t \in parquet \ html : InDiff(t, "PARQUET")

====
